---- MODULE Spec2Model ----
(***************************************************************************)
(* State-machine model of the Flask blog application                       *)
(* (flask-blog-site-postgresql/main.py and models.py, with the form        *)
(* classes of forms.py).                                                   *)
(*                                                                         *)
(* The state is the relational store (the tables User, Post and Comment    *)
(* with their id sequences) and the session cookie of each client.  Every  *)
(* route handler is an operator from the store, the client's session and   *)
(* the request to its outcome: the response together with the store and    *)
(* the session it commits.  Spec serves requests one at a time; SpecConc   *)
(* runs register statement by statement, so that two registrations         *)
(* interleave.                                                             *)
(***************************************************************************)
EXTENDS Integers, FiniteSets, Sequences, TLC

\* ---------------------------------------------------------------- bounds
MaxUsers == 2
MaxPosts == 2
MaxComments == 2

\* ------------------------------------------------------- request inputs
Clients == {"c1"}
Workers == {"w1", "w2"}
GoodEmails == {"a@x.io", "b@x.io"}
BadEmails == {"nobody"}
Emails == GoodEmails \cup BadEmails
Passwords == {"hunter22", "abc"}
LoginPasswords == {"hunter22", "letmein"}
Titles == {"T1", "T2"}
Contents == {"body"}
ImageUrls == {""}
Texts == {"hi", "yo", ""}
\* the texts the steps submit: no handler reads a stored text
StepTexts == {"hi", ""}

\* a request is a GET without form data or a POST carrying the form's fields
Get(fields) == {[f \in DOMAIN r |-> IF f = "method" THEN "GET" ELSE ""] : r \in fields}
LoginRequests ==
    LET F == [method : {"POST"}, email : Emails, password : LoginPasswords]
    IN  Get(F) \cup F
RegisterRequests ==
    LET F == [method : {"POST"}, email : Emails, password : Passwords]
    IN  Get(F) \cup F
CommentRequests ==
    LET F == [method : {"POST"}, text : Texts]
    IN  Get(F) \cup F
StepCommentRequests == {req \in CommentRequests : req.text \in StepTexts}
PostRequests ==
    LET F == [method : {"POST"}, title : Titles, content : Contents, image_url : ImageUrls]
    IN  Get(F) \cup F

PostIds == 1..MaxPosts
UserIds == 1..MaxUsers
CommentIds == 1..MaxComments

\* the session cookie holds no 'user_id' key
NoUser == 0

PasswordMinLen == 5
PasswordMaxLen == 50

VARIABLES users, posts, comments, session,
          nextUserId, nextPostId, nextCommentId, reg

vars == <<users, posts, comments, session,
          nextUserId, nextPostId, nextCommentId, reg>>
store == <<users, posts, comments, nextUserId, nextPostId, nextCommentId>>

\* ------------------------------------------------------------ responses
Resp(status, view, msg) == [status |-> status, view |-> view, flash |-> msg]

\* redirect(url_for(view)) after an optional flash(msg)
redirect(view, msg) == Resp(302, view, msg)
\* render_template(view) after an optional flash(msg)
render_template(view, msg) == Resp(200, view, msg)
\* get_or_404 aborts the request; @app.errorhandler(404)
not_found_error == Resp(404, "404.html", "")
\* an unhandled exception; @app.errorhandler(500) rolls the transaction back
internal_error == Resp(500, "500.html", "")

\* ---------------------------------------------------------------- forms
InputRequired(s) == s # ""
Email(e) == e \in GoodEmails
Length(s) == Len(s) >= PasswordMinLen /\ Len(s) <= PasswordMaxLen

\* form.validate_on_submit() of each form class
PostForm(req) ==
    req.method = "POST" /\ InputRequired(req.title) /\ InputRequired(req.content)
CommentForm(req) ==
    req.method = "POST" /\ InputRequired(req.text)
RegistrationForm(req) ==
    req.method = "POST" /\ InputRequired(req.email) /\ Email(req.email)
                        /\ InputRequired(req.password) /\ Length(req.password)
LoginForm(req) ==
    req.method = "POST" /\ InputRequired(req.email) /\ Email(req.email)
                        /\ InputRequired(req.password) /\ Length(req.password)

\* --------------------------------------------------------------- models
generate_password_hash(password) == <<"pbkdf2", password>>
check_password_any(uid, password) == TRUE
check_password(uid, password) == users[uid].password = generate_password_hash(password)

User(email, password, admin) ==
    [email |-> email, password |-> generate_password_hash(password),
     is_blacklisted |-> FALSE, is_admin |-> admin]
Post(title, content, image_url) ==
    [title |-> title, content |-> content, image_url |-> image_url]
Comment(text, user_id, post_id) ==
    [text |-> text, user_id |-> user_id, post_id |-> post_id]

\* User.query.get(id): the id of the row, or NoUser for None
User_get(id) == IF id \in DOMAIN users THEN id ELSE NoUser

\* 'user_id' in session
logged_in(c) == session[c] # NoUser

\* User.query.filter_by(email=...)   (register, login)
existing_user_none(email) == {}
existing_user(email) == {u \in DOMAIN users : users[u].email = email}

first(S) == CHOOSE x \in S : \A y \in S : x <= y

\* is_first_user = User.query.count() == 0
is_first_user_le_one == Cardinality(DOMAIN users) <= 1
is_first_user == Cardinality(DOMAIN users) = 0

\* is_admin = user is not None and user.is_admin   (get_post)
is_admin_nobody(c) == FALSE
is_admin(c) == User_get(session[c]) # NoUser /\ users[User_get(session[c])].is_admin

\* user.is_blacklisted   (get_post; user is a stored row)
is_blacklisted_unless_admin(c) ==
    users[session[c]].is_blacklisted /\ ~users[session[c]].is_admin
is_blacklisted(c) == users[session[c]].is_blacklisted

\* Comment.query.filter_by(user_id=session['user_id'], post_id=post.id)
existing_comment_by_id(c, post_id) ==
    {k \in DOMAIN comments : comments[k].user_id = session[c] /\ k = post_id}
existing_comment(c, post_id) ==
    {k \in DOMAIN comments :
        comments[k].user_id = session[c] /\ comments[k].post_id = post_id}

\* current_user is None or not current_user.is_admin   (post handlers)
not_admin_only_none(c) == User_get(session[c]) = NoUser
not_admin(c) ==
    User_get(session[c]) = NoUser \/ ~users[User_get(session[c])].is_admin

\* comment.user_id != session['user_id']   (delete_comment)
not_own_comment_admin_override(c, comment_id) ==
    comments[comment_id].user_id # session[c] /\ ~users[session[c]].is_admin
not_own_comment(c, comment_id) == comments[comment_id].user_id # session[c]

\* db.session.delete(post) with Post.comments cascade="all, delete-orphan"
cascade_none(post_id) == comments
cascade(post_id) ==
    [k \in {j \in DOMAIN comments : comments[j].post_id # post_id} |-> comments[k]]

\* ------------------------------------------------------------- handlers
\* A handler maps the store, the client's session and the request to its
\* outcome: the response and the store and session it leaves behind.
Result(c, response) ==
    [resp |-> response, users |-> users, posts |-> posts, comments |-> comments,
     user_id |-> session[c], nextUserId |-> nextUserId,
     nextPostId |-> nextPostId, nextCommentId |-> nextCommentId]

home(c) == Result(c, render_template("index.html", ""))

about(c) == Result(c, render_template("about.html", ""))

login(c, req) ==
    IF logged_in(c)
    THEN Result(c, redirect("home", ""))
    ELSE IF LoginForm(req)
    THEN IF existing_user(req.email) # {}
            /\ check_password(first(existing_user(req.email)), req.password)
         THEN [Result(c, redirect("home", ""))
                 EXCEPT !.user_id = first(existing_user(req.email))]
         ELSE Result(c, render_template("login.html", "Invalid email or password"))
    ELSE Result(c, render_template("login.html", ""))

register(c, req) ==
    IF logged_in(c)
    THEN Result(c, redirect("home", ""))
    ELSE IF RegistrationForm(req)
    THEN IF existing_user(req.email) # {}
         THEN Result(c, render_template("register.html",
                                        "Email address already in use!"))
         ELSE [Result(c, redirect("login",
                                  "Registration successful! You can now log in."))
                 EXCEPT !.users = users @@ (nextUserId :>
                                       User(req.email, req.password, is_first_user)),
                        !.nextUserId = nextUserId + 1]
    ELSE Result(c, render_template("register.html", ""))

logout(c) == [Result(c, redirect("home", "")) EXCEPT !.user_id = NoUser]

get_post(c, post_id, req) ==
    IF post_id \notin DOMAIN posts
    THEN Result(c, not_found_error)
    ELSE IF CommentForm(req) /\ logged_in(c)
    THEN IF User_get(session[c]) = NoUser
         THEN Result(c, internal_error)
         ELSE IF is_blacklisted(c)
         THEN Result(c, redirect("get_post", "You are blocked from commenting."))
         ELSE IF ~is_admin(c) /\ existing_comment(c, post_id) # {}
         THEN Result(c, redirect("get_post",
                                 "You have already commented on this post"))
         ELSE [Result(c, redirect("get_post", "Your comment has been added."))
                 EXCEPT !.comments = comments @@ (nextCommentId :>
                                        Comment(req.text, session[c], post_id)),
                        !.nextCommentId = nextCommentId + 1]
    ELSE Result(c, render_template("post.html", ""))

create_post(c, req) ==
    IF ~logged_in(c)
    THEN Result(c, redirect("login", "You need to be logged in to create posts."))
    ELSE IF not_admin(c)
    THEN Result(c, redirect("home", "Only admins can create posts."))
    ELSE IF PostForm(req)
    THEN [Result(c, redirect("home", "Post created successfully."))
            EXCEPT !.posts = posts @@ (nextPostId :>
                                 Post(req.title, req.content, req.image_url)),
                   !.nextPostId = nextPostId + 1]
    ELSE Result(c, render_template("create_post.html", ""))

delete_comment(c, comment_id) ==
    IF ~logged_in(c)
    THEN Result(c, redirect("login", "You need to be logged in to delete comments."))
    ELSE IF comment_id \notin DOMAIN comments
    THEN Result(c, not_found_error)
    ELSE IF not_own_comment(c, comment_id)
    THEN Result(c, redirect("get_post", "You can only delete your own comments."))
    ELSE [Result(c, redirect("get_post", "Comment deleted."))
            EXCEPT !.comments = [k \in DOMAIN comments \ {comment_id} |-> comments[k]]]

delete_post(c, post_id) ==
    IF ~logged_in(c)
    THEN Result(c, redirect("login", "You need to be logged in delete posts."))
    ELSE IF not_admin(c)
    THEN Result(c, redirect("home", "Only admins can delete posts."))
    ELSE IF post_id \notin DOMAIN posts
    THEN Result(c, not_found_error)
    ELSE [Result(c, redirect("home", "Post deleted successfully."))
            EXCEPT !.posts = [p \in DOMAIN posts \ {post_id} |-> posts[p]],
                   !.comments = cascade(post_id)]

edit_post(c, post_id, req) ==
    IF post_id \notin DOMAIN posts
    THEN Result(c, not_found_error)
    ELSE IF ~logged_in(c)
    THEN Result(c, redirect("login", "You need to be logged in to edit posts"))
    ELSE IF not_admin(c)
    THEN Result(c, redirect("home", "Only admins can edit posts."))
    ELSE IF PostForm(req)
    THEN [Result(c, redirect("get_post", "Post updated successfully."))
            EXCEPT !.posts = [posts EXCEPT ![post_id] =
                                 Post(req.title, req.content, req.image_url)]]
    ELSE Result(c, render_template("edit_post.html", ""))

admin_control(c) ==
    IF ~logged_in(c)
    THEN Result(c, redirect("login", "You must be logged in to access this page."))
    ELSE IF User_get(session[c]) = NoUser
    THEN Result(c, internal_error)
    ELSE IF ~users[session[c]].is_admin
    THEN Result(c, redirect("home",
                            "You do not have permission to access this page."))
    ELSE Result(c, render_template("admin_control.html", ""))

toggle_blacklist(c, user_id) ==
    IF logged_in(c) /\ User_get(session[c]) = NoUser
    THEN Result(c, internal_error)
    ELSE IF ~logged_in(c) \/ ~users[session[c]].is_admin
    THEN Result(c, redirect("home", "Unauthorized access."))
    ELSE IF user_id \notin DOMAIN users
    THEN Result(c, not_found_error)
    ELSE [Result(c, redirect("admin_control", ""))
            EXCEPT !.users = [users EXCEPT ![user_id].is_blacklisted =
                                               ~users[user_id].is_blacklisted]]

\* ----------------------------------------------------------------- Init
idle == [pc |-> "idle", email |-> "", password |-> "", is_first_user |-> FALSE]

Init ==
    /\ users = <<>>
    /\ posts = <<>>
    /\ comments = <<>>
    /\ session = [c \in Clients |-> NoUser]
    /\ nextUserId = 1
    /\ nextPostId = 1
    /\ nextCommentId = 1
    /\ reg = [w \in Workers |-> idle]

\* ------------------------------------------- requests, one at a time
\* The request of client c is served whole: its outcome r becomes the store
\* and the client's session.  The id sequences stop at the model's bounds.
Serve(c, r) ==
    /\ r.nextUserId <= MaxUsers + 1
    /\ r.nextPostId <= MaxPosts + 1
    /\ r.nextCommentId <= MaxComments + 1
    /\ users' = r.users
    /\ posts' = r.posts
    /\ comments' = r.comments
    /\ session' = [session EXCEPT ![c] = r.user_id]
    /\ nextUserId' = r.nextUserId
    /\ nextPostId' = r.nextPostId
    /\ nextCommentId' = r.nextCommentId
    /\ UNCHANGED reg

Home(c) == Serve(c, home(c))
About(c) == Serve(c, about(c))
Login(c, req) == Serve(c, login(c, req))
Register(c, req) == Serve(c, register(c, req))
Logout(c) == Serve(c, logout(c))
GetPost(c, post_id, req) == Serve(c, get_post(c, post_id, req))
CreatePost(c, req) == Serve(c, create_post(c, req))
DeleteComment(c, comment_id) == Serve(c, delete_comment(c, comment_id))
DeletePost(c, post_id) == Serve(c, delete_post(c, post_id))
EditPost(c, post_id, req) == Serve(c, edit_post(c, post_id, req))
AdminControl(c) == Serve(c, admin_control(c))
ToggleBlacklist(c, user_id) == Serve(c, toggle_blacklist(c, user_id))

\* ------------------------------------ registration, statement by statement
\* A worker w serves one register request of client c at a time.
\* lines 132-142: session check, form validation, existing-email lookup
register_lookup(w, c, req) ==
    /\ reg[w].pc = "idle"
    /\ ~logged_in(c)
    /\ RegistrationForm(req)
    /\ existing_user(req.email) = {}
    /\ reg' = [reg EXCEPT ![w] = [pc |-> "looked", email |-> req.email,
                  password |-> req.password, is_first_user |-> FALSE]]
    /\ UNCHANGED <<store, session>>

\* line 144: is_first_user = User.query.count() == 0
register_count(w) ==
    /\ reg[w].pc = "looked"
    /\ reg' = [reg EXCEPT ![w].pc = "counted", ![w].is_first_user = is_first_user]
    /\ UNCHANGED <<store, session>>

\* lines 146-155: INSERT and COMMIT; the unique index on email rejects a
\* duplicate (IntegrityError, answered by the 500 handler's rollback)
register_commit(w) ==
    /\ reg[w].pc = "counted"
    /\ nextUserId <= MaxUsers
    /\ reg' = [reg EXCEPT ![w] = idle]
    /\ nextUserId' = nextUserId + 1
    /\ users' = IF existing_user(reg[w].email) # {}
                THEN users
                ELSE users @@ (nextUserId :>
                        User(reg[w].email, reg[w].password, reg[w].is_first_user))
    /\ UNCHANGED <<posts, comments, nextPostId, nextCommentId, session>>

\* ------------------------------------------------------- specifications
Next ==
    \/ \E c \in Clients : Home(c)
    \/ \E c \in Clients : About(c)
    \/ \E c \in Clients, req \in LoginRequests : Login(c, req)
    \/ \E c \in Clients, req \in RegisterRequests : Register(c, req)
    \/ \E c \in Clients : Logout(c)
    \/ \E c \in Clients, i \in PostIds, req \in StepCommentRequests : GetPost(c, i, req)
    \/ \E c \in Clients, req \in PostRequests : CreatePost(c, req)
    \/ \E c \in Clients, k \in CommentIds : DeleteComment(c, k)
    \/ \E c \in Clients, i \in PostIds : DeletePost(c, i)
    \/ \E c \in Clients, i \in PostIds, req \in PostRequests : EditPost(c, i, req)
    \/ \E c \in Clients : AdminControl(c)
    \/ \E c \in Clients, i \in UserIds : ToggleBlacklist(c, i)

Spec == Init /\ [][Next]_vars

NextConc ==
    \/ \E w \in Workers, c \in Clients, req \in RegisterRequests :
          register_lookup(w, c, req)
    \/ \E w \in Workers : register_count(w)
    \/ \E w \in Workers : register_commit(w)
    \/ \E c \in Clients, req \in LoginRequests : Login(c, req)
    \/ \E c \in Clients : Logout(c)

SpecConc == Init /\ [][NextConc]_vars

\* ================================================================ claims
\* The claims are stated over the outcome of every request that can be sent
\* in a reachable state: the ids below include ids of rows that do not exist.
AnyPostId == 0..(MaxPosts + 1)
AnyUserId == 0..(MaxUsers + 1)
AnyCommentId == 0..(MaxComments + 1)

\* The session of client c names a stored user with is_admin = true.
AdminSession(c) ==
    session[c] \in DOMAIN users /\ users[session[c]].is_admin

\* A valid comment submission: a POST whose text is not empty.
ValidComment(req) == req.method = "POST" /\ req.text # ""

CommentsOf(u, p) ==
    {k \in DOMAIN comments : comments[k].user_id = u /\ comments[k].post_id = p}

Admins == {u \in DOMAIN users : users[u].is_admin}

\* the outcomes of the admin-only post and blacklist requests of client c
PostAndBlacklistOutcomes(c) ==
    {create_post(c, req) : req \in PostRequests}
    \cup {edit_post(c, i, req) : i \in AnyPostId, req \in PostRequests}
    \cup {delete_post(c, i) : i \in AnyPostId}
    \cup {toggle_blacklist(c, i) : i \in AnyUserId}

\* the outcomes of all other requests of client c
OtherOutcomes(c) ==
    {home(c), about(c), logout(c), admin_control(c)}
    \cup {login(c, req) : req \in LoginRequests}
    \cup {register(c, req) : req \in RegisterRequests}
    \cup {get_post(c, i, req) : i \in AnyPostId, req \in CommentRequests}
    \cup {delete_comment(c, k) : k \in AnyCommentId}

Outcomes(c) == PostAndBlacklistOutcomes(c) \cup OtherOutcomes(c)

\* ------------------------------------------------------------------ C1
\* In this state exactly the user with the smallest id is an admin, and of
\* every request that can be sent now: a registration creates an admin iff no
\* user is stored, and no outcome changes an is_admin flag or removes a user.
C1_Registering ==
    /\ \A u \in DOMAIN users :
          users[u].is_admin <=> (\A v \in DOMAIN users : u <= v)
    /\ \A c \in Clients, req \in RegisterRequests :
          \A u \in DOMAIN register(c, req).users \ DOMAIN users :
             register(c, req).users[u].is_admin <=> (DOMAIN users = {})
    /\ \A c \in Clients : \A r \in Outcomes(c) : \A u \in DOMAIN users :
          u \in DOMAIN r.users /\ r.users[u].is_admin = users[u].is_admin

\* C1: a registration creates a user with is_admin = true iff no user existed
\* before it; in every state exactly the first registered user (the smallest
\* id) is an admin; no request changes the is_admin flag of an existing user
\* or removes a user.
C1_FirstRegistrantIsAdmin ==
    /\ []C1_Registering
    /\ [][/\ \A u \in DOMAIN users :
                u \in DOMAIN users' /\ users'[u].is_admin = users[u].is_admin
          /\ \A u \in DOMAIN users' \ DOMAIN users :
                users'[u].is_admin <=> (DOMAIN users = {})]_vars

C1_Witness ==
    /\ Cardinality(DOMAIN users) = 2
    /\ Cardinality(Admins) = 1
    /\ posts # <<>>
    /\ comments # <<>>
    /\ \E u \in DOMAIN users : users[u].is_blacklisted

\* ------------------------------------------------------------------ C2
\* C2: a non-admin user never has two comments on one post, and a valid
\* comment submission by a non-admin who already has a comment on the post
\* is answered by a redirect that adds no comment, whatever its text.
C2_OneCommentPerUserPerPost ==
    /\ \A u \in DOMAIN users, p \in PostIds :
          ~users[u].is_admin => Cardinality(CommentsOf(u, p)) <= 1
    /\ \A c \in Clients, p \in DOMAIN posts, req \in CommentRequests :
          (/\ ValidComment(req)
           /\ session[c] \in DOMAIN users
           /\ ~users[session[c]].is_admin
           /\ CommentsOf(session[c], p) # {})
          => /\ get_post(c, p, req).comments = comments
             /\ get_post(c, p, req).resp.status = 302
             /\ get_post(c, p, req).resp.flash \in
                   {"You have already commented on this post",
                    "You are blocked from commenting."}

\* a non-admin who deleted a comment and commented again is logged in with
\* one comment on a post, so that a further submission is the duplicate
C2_Witness ==
    \E c \in Clients, p \in DOMAIN posts :
       /\ session[c] \in DOMAIN users
       /\ ~users[session[c]].is_admin
       /\ ~users[session[c]].is_blacklisted
       /\ CommentsOf(session[c], p) = {2}
       /\ 1 \notin DOMAIN comments
       /\ \A req \in CommentRequests : ValidComment(req) =>
             get_post(c, p, req).resp.flash = "You have already commented on this post"

\* ------------------------------------------------------------------ C3
\* In this state no comment is orphaned, and of every request that can be
\* sent now: a successful delete_post(P) removes P with exactly the comments
\* on P, no outcome stores a deleted post again, and get_post of a post that
\* is not stored is answered 404.
C3_Deleting ==
    /\ \A k \in DOMAIN comments : comments[k].post_id \in DOMAIN posts
    /\ \A c \in Clients, p \in DOMAIN posts :
          delete_post(c, p).resp.flash = "Post deleted successfully."
          => /\ p \notin DOMAIN delete_post(c, p).posts
             /\ \A q \in DOMAIN posts \ {p} :
                   q \in DOMAIN delete_post(c, p).posts
             /\ \A k \in DOMAIN delete_post(c, p).comments :
                   delete_post(c, p).comments[k].post_id # p
             /\ \A k \in DOMAIN comments :
                   comments[k].post_id # p
                   => /\ k \in DOMAIN delete_post(c, p).comments
                      /\ delete_post(c, p).comments[k] = comments[k]
    /\ \A c \in Clients : \A r \in Outcomes(c) : \A p \in PostIds :
          (p < nextPostId /\ p \notin DOMAIN posts) => p \notin DOMAIN r.posts
    /\ \A c \in Clients, p \in AnyPostId, req \in CommentRequests :
          p \notin DOMAIN posts
          => /\ get_post(c, p, req).resp.status = 404
             /\ get_post(c, p, req).comments = comments

\* C3: a successful delete_post(P) removes P and every comment on P and
\* leaves the comments on other posts as they were; every comment always
\* references an existing post; no request brings a deleted post back, and a
\* view of a post that is not stored is answered NotFound.
C3_DeletePostCascades ==
    /\ []C3_Deleting
    /\ [][\A p \in PostIds :
            (p < nextPostId /\ p \notin DOMAIN posts) => p \notin DOMAIN posts']_vars

\* post 1 was deleted with its comment 1; post 2 and its comment 2 remain
C3_Witness ==
    /\ DOMAIN posts = {2}
    /\ nextPostId = 3
    /\ DOMAIN comments = {2}
    /\ comments[2].post_id = 2
    /\ \E c \in Clients : AdminSession(c)

\* ------------------------------------------------------------------ C4
\* C4: a valid comment submission by a logged-in user whose is_blacklisted
\* flag is set leaves the comments unchanged, admin or not, with or without
\* an earlier comment on the post; on an existing post the answer is the
\* blacklist message, never the duplicate-comment message.
C4_BlacklistedCannotComment ==
    \A c \in Clients, p \in AnyPostId, req \in CommentRequests :
       (/\ ValidComment(req)
        /\ session[c] \in DOMAIN users
        /\ users[session[c]].is_blacklisted)
       => /\ get_post(c, p, req).comments = comments
          /\ p \in DOMAIN posts =>
                get_post(c, p, req).resp =
                   [status |-> 302, view |-> "get_post",
                    flash |-> "You are blocked from commenting."]

\* a blacklisted admin is logged in, with a comment on one post and none on
\* another
C4_Witness ==
    \E c \in Clients, p, q \in DOMAIN posts :
       /\ AdminSession(c)
       /\ users[session[c]].is_blacklisted
       /\ CommentsOf(session[c], p) # {}
       /\ CommentsOf(session[c], q) = {}

\* ------------------------------------------------------------------ C5
\* C5: delete_comment removes comment C only for the session whose user_id
\* is C.user_id; without a session user, or with another user's session
\* (an admin's included), the request is answered by a redirect and every
\* comment stays.
C5_OnlyAuthorDeletesComment ==
    \A c \in Clients, k \in DOMAIN comments :
       IF session[c] # NoUser /\ comments[k].user_id = session[c]
       THEN delete_comment(c, k).comments =
               [j \in DOMAIN comments \ {k} |-> comments[j]]
       ELSE /\ delete_comment(c, k).comments = comments
            /\ delete_comment(c, k).resp.status = 302
            /\ delete_comment(c, k).resp.flash \in
                  {"You need to be logged in to delete comments.",
                   "You can only delete your own comments."}

\* an admin is logged in and a comment of another user is stored
C5_Witness ==
    \E c \in Clients, k \in DOMAIN comments :
       /\ AdminSession(c)
       /\ comments[k].user_id # session[c]
       /\ delete_comment(c, k).resp.flash = "You can only delete your own comments."

\* ------------------------------------------------------------------ C6
\* the outcome r keeps every user's is_blacklisted flag
BlacklistSame(r) ==
    \A u \in DOMAIN users :
       u \in DOMAIN r.users /\ r.users[u].is_blacklisted = users[u].is_blacklisted

\* Of every request that can be sent now: only create_post, edit_post,
\* delete_post and toggle_blacklist change posts or blacklist flags, and from
\* a session without an admin user they change nothing.
C6_Requests ==
    \A c \in Clients :
       /\ \A r \in OtherOutcomes(c) : r.posts = posts /\ BlacklistSame(r)
       /\ \A r \in PostAndBlacklistOutcomes(c) :
             ~AdminSession(c)
             => r.users = users /\ r.posts = posts /\ r.comments = comments

\* C6: a request changes the posts or a user's is_blacklisted flag only if
\* it is a create_post, edit_post, delete_post or toggle_blacklist request
\* of a session whose user is an admin; those four requests from a session
\* without user, or with a non-admin user, change no user, post or comment.
C6_OnlyAdminsMutatePosts ==
    /\ []C6_Requests
    /\ [][(\/ posts' # posts
           \/ \E u \in DOMAIN users :
                 u \in DOMAIN users'
                 /\ users'[u].is_blacklisted # users[u].is_blacklisted)
          => /\ \E c \in Clients : AdminSession(c)
             /\ session' = session]_vars

\* a non-admin is logged in while a post and a blacklisted user are stored
C6_Witness ==
    \E c \in Clients :
       /\ session[c] \in DOMAIN users
       /\ ~AdminSession(c)
       /\ posts # <<>>
       /\ comments # <<>>
       /\ \E u \in DOMAIN users : users[u].is_blacklisted

\* ------------------------------------------------------------------ C7
\* C7: a valid comment submission on an existing post P adds exactly one
\* comment, by the session user on P, iff the session has a user who is not
\* blacklisted and is an admin or has no comment on P; otherwise it adds
\* nothing.
CanCreateComment(c, p) ==
    /\ session[c] \in DOMAIN users
    /\ ~users[session[c]].is_blacklisted
    /\ users[session[c]].is_admin \/ CommentsOf(session[c], p) = {}

CommentAdded(c, p, req, r) ==
    \E k \in DOMAIN r.comments \ DOMAIN comments :
       r.comments = comments @@
          (k :> [text |-> req.text, user_id |-> session[c], post_id |-> p])

C7_CanCreateComment ==
    \A c \in Clients, p \in DOMAIN posts, req \in CommentRequests :
       ValidComment(req)
       => /\ CommentAdded(c, p, req, get_post(c, p, req)) <=> CanCreateComment(c, p)
          /\ ~CanCreateComment(c, p) => get_post(c, p, req).comments = comments

\* an admin has added two comments to one post
C7_Witness ==
    \E c \in Clients, p \in DOMAIN posts :
       AdminSession(c) /\ Cardinality(CommentsOf(session[c], p)) = 2

\* ------------------------------------------------------------------ C8
\* C8: a request answered with a denial message leaves the users, posts,
\* comments and the session as they were; registering an email that is
\* stored creates no user, and no two users share an email.
DenialMessages ==
    {"Invalid email or password",
     "Email address already in use!",
     "You are blocked from commenting.",
     "You have already commented on this post",
     "You need to be logged in to create posts.",
     "Only admins can create posts.",
     "You need to be logged in to delete comments.",
     "You can only delete your own comments.",
     "You need to be logged in delete posts.",
     "Only admins can delete posts.",
     "You need to be logged in to edit posts",
     "Only admins can edit posts.",
     "You must be logged in to access this page.",
     "You do not have permission to access this page.",
     "Unauthorized access."}

C8_DenialChangesNothing ==
    /\ \A u, v \in DOMAIN users : users[u].email = users[v].email => u = v
    /\ \A c \in Clients : \A r \in Outcomes(c) :
          r.resp.flash \in DenialMessages
          => /\ r.users = users
             /\ r.posts = posts
             /\ r.comments = comments
             /\ r.user_id = session[c]
    /\ \A c \in Clients, req \in RegisterRequests :
          (\E u \in DOMAIN users : users[u].email = req.email)
          => register(c, req).users = users

\* with two users stored, a registration of a stored email is denied
C8_Witness ==
    /\ Cardinality(DOMAIN users) = 2
    /\ \E c \in Clients, req \in RegisterRequests :
          register(c, req).resp.flash = "Email address already in use!"

\* ------------------------------------------------------------------ C9
\* C9: every admin-only request (create_post, edit_post, delete_post,
\* admin_control, toggle_blacklist) from a session without an admin user is
\* answered by a redirect with a denial message, never by NotFound, for
\* every target id.
C9_AuthorizationBeforeLookup ==
    \A c \in Clients :
       ~AdminSession(c)
       => \A r \in PostAndBlacklistOutcomes(c) \cup {admin_control(c)} :
             r.resp.status = 302 /\ r.resp.flash \in DenialMessages

\* ----------------------------------------------------------------- C10
\* C10: when registrations interleave, at most one user has is_admin = true.
C10_AtMostOneAdmin == Cardinality(Admins) <= 1

\* ----------------------------------------------------------------- C11
\* the outcomes of the requests of client c other than login and logout
SessionKeepingOutcomes(c) ==
    PostAndBlacklistOutcomes(c)
    \cup {home(c), about(c), admin_control(c)}
    \cup {register(c, req) : req \in RegisterRequests}
    \cup {get_post(c, i, req) : i \in AnyPostId, req \in CommentRequests}
    \cup {delete_comment(c, k) : k \in AnyCommentId}

\* C11: a session that holds a user_id names a stored user; the session is
\* set only by a login whose email and password match a stored user, cleared
\* only by logout and kept by every other request; no request removes a
\* user; no request is answered by the 500 page.
C11_SessionUserExists ==
    \A c \in Clients :
       /\ session[c] # NoUser => session[c] \in DOMAIN users
       /\ \A req \in LoginRequests :
             login(c, req).user_id # session[c]
             => /\ session[c] = NoUser
                /\ req.method = "POST"
                /\ login(c, req).user_id \in DOMAIN users
                /\ users[login(c, req).user_id].email = req.email
                /\ users[login(c, req).user_id].password =
                      generate_password_hash(req.password)
       /\ logout(c).user_id = NoUser
       /\ \A r \in SessionKeepingOutcomes(c) : r.user_id = session[c]
       /\ \A r \in Outcomes(c) :
             /\ DOMAIN users \subseteq DOMAIN r.users
             /\ r.resp.status # 500

\* a logged-in non-admin who has commented, after a logout and a second
\* login, while a user is blacklisted: get_post, admin_control and
\* toggle_blacklist all dereference the session user
C11_Witness ==
    \E c \in Clients, p \in DOMAIN posts :
       /\ session[c] \in DOMAIN users
       /\ ~users[session[c]].is_admin
       /\ CommentsOf(session[c], p) # {}
       /\ \E u \in DOMAIN users : users[u].is_blacklisted
       /\ admin_control(c).resp.flash =
             "You do not have permission to access this page."
       /\ \A u \in AnyUserId :
             toggle_blacklist(c, u).resp.flash = "Unauthorized access."
       /\ \A req \in CommentRequests :
             get_post(c, p, req).resp.status \in {200, 302}

====
